---- MODULE Spec2Model ----
(***************************************************************************)
(* A model of async-pipe: an in-process byte pipe whose two handles,      *)
(* PipeWriter and PipeReader, share one Arc<Mutex<State>>.                 *)
(*                                                                         *)
(* Every poll operation is one critical section of the mutex.  Two reads  *)
(* of the Arc's strong count are not ordered by the mutex with respect to *)
(* the peer's drop, so they are modelled as steps of their own:           *)
(*   - poll_write reads the count BEFORE it locks (writer.rs:65);          *)
(*   - poll_read reads it while holding the lock, before it registers its *)
(*     waker (reader.rs:84, 87-88).                                        *)
(* A task that got Poll::Pending is parked until its waker is invoked.    *)
(***************************************************************************)
EXTENDS Integers, Sequences, FiniteSets, TLC

\* Capacity of the buffer (the model's stand-in for state::BUFFER_SIZE).
BUFFER_SIZE == 2
\* Most bytes ever accepted by the pipe in one behaviour.
MaxWritten == 3
\* Longest slice handed to poll_write / longest destination of poll_read.
MaxSlice == 2
\* Most bytes of the write_all / read_to_end scenario.
MaxData == 3

Bytes == {0, 1}
None == "None"
Some == "Some"

VARIABLES
    buffer,         \* State.buffer
    closed,         \* State.closed
    reader_waker,   \* State.reader_waker : None or Some (the reader task's waker)
    writer_waker,   \* State.writer_waker : None or Some (the writer task's waker)
    mutex,          \* holder of the Mutex across steps: "free" or "reader"
    wpc,            \* writer handle/task: "idle", "poll_write", "parked", "dropped"
    rpc,            \* reader handle/task: "idle", "poll_read", "parked", "dropped"
    wbuf,           \* the slice of the poll_write in progress
    wwoken,         \* the writer task has been notified since its last poll began
    rwoken,         \* the reader task has been notified since its last poll began
    wres,           \* what the writer's last operation returned
    rres,           \* what the reader's last operation returned
    written,        \* history: all bytes accepted by poll_write, in order
    received,       \* history: all bytes returned by poll_read, in order
    wtask,          \* the writer task's program: "free", or a step of the transfer
    rtask,          \* the reader task's program: "free", or a step of the transfer
    data            \* the bytes the transfer scenario sends

state == <<buffer, closed, reader_waker, writer_waker>>
tasks == <<wtask, rtask, data>>
vars == <<buffer, closed, reader_waker, writer_waker, mutex, wpc, rpc, wbuf,
          wwoken, rwoken, wres, rres, written, received, wtask, rtask, data>>

Min(a, b) == IF a <= b THEN a ELSE b

SeqsUpTo(n) == UNION {[1..k -> Bytes] : k \in 0..n}

\* What an operation returned: Poll::Ready(Ok(n)) is "ok", Poll::Pending is
\* "would_block", Poll::Ready(Err(BrokenPipe)) is "BrokenPipe".
Result(op, kind, n) == [op |-> op, kind |-> kind, n |-> n]

NoResult == Result("none", "none", 0)

\* Arc::strong_count(&self.state): one per live handle.
strong_count == (IF wpc = "dropped" THEN 0 ELSE 1) + (IF rpc = "dropped" THEN 0 ELSE 1)

\* pipe(): empty buffer, not closed, no wakers, two handles.
pipe ==
    /\ buffer = <<>>
    /\ closed = FALSE
    /\ reader_waker = None
    /\ writer_waker = None
    /\ mutex = "free"
    /\ wpc = "idle"
    /\ rpc = "idle"
    /\ wbuf = <<>>
    /\ wwoken = FALSE
    /\ rwoken = FALSE
    /\ wres = NoResult
    /\ rres = NoResult
    /\ written = <<>>
    /\ received = <<>>

\* A wake_reader_half that never invokes the waker.
wake_reader_half_never == rwoken

\* A wake_reader_half that looks into the writer's slot.
wake_reader_half_wrong_slot == IF writer_waker # None THEN TRUE ELSE rwoken

\* PipeWriter::wake_reader_half: the reader's notified flag after the call.
wake_reader_half == IF reader_waker # None THEN TRUE ELSE rwoken

\* A wake_writer_half that never invokes the waker.
wake_writer_half_never == wwoken

\* PipeReader::wake_writer_half: the writer's notified flag after the call.
wake_writer_half == IF writer_waker # None THEN TRUE ELSE wwoken

\* A liveness test of poll_write that compares the count with 0.
reader_gone_count_zero == strong_count = 0

\* A liveness test of poll_write that takes two owners for one.
reader_gone_count_two == strong_count = 2

\* poll_write's test that the PipeWriter is the state's only owner.
reader_gone == strong_count = 1

\* A copy length that forgets the room left in the buffer.
bytes_to_write_unbounded(buf) == Len(buf)

\* A copy length that bounds by the capacity, not by the room left.
bytes_to_write_capacity(buf) == Min(BUFFER_SIZE, Len(buf))

\* poll_write: remaining.min(buf.len()), remaining = BUFFER_SIZE - buffer.len().
bytes_to_write(buf) == Min(BUFFER_SIZE - Len(buffer), Len(buf))

\* An emptiness test that also gives up on a closed pipe.
nothing_to_read_or_closed == buffer = <<>> \/ closed

\* poll_read: state.buffer.is_empty().
nothing_to_read == buffer = <<>>

\* An end-of-stream test that forgets the dropped writer.
end_of_stream_closed_only == closed

\* poll_read's end-of-stream test on an empty buffer.
end_of_stream == closed \/ strong_count = 1

\* A read length that ignores the length of the destination.
size_to_read_whole_buffer(len) == Len(buffer)

\* poll_read: state.buffer.len().min(buf.len()).
size_to_read(len) == Min(Len(buffer), len)

\* A remainder that throws away what the destination had no room for.
rest_cleared(size) == <<>>

\* poll_read: the buffer after split_at(size) took the first size bytes.
rest(size) == SubSeq(buffer, size + 1, Len(buffer))

----------------------------------------------------------------------------
(* PipeWriter *)

\* poll_write, before the lock: the strong-count test and the early return.
poll_write_begin(buf) ==
    /\ wpc = "idle"
    /\ IF reader_gone
       THEN /\ wres' = Result("write", "BrokenPipe", 0)
            /\ UNCHANGED <<wpc, wbuf>>
       ELSE /\ wpc' = "poll_write"
            /\ wbuf' = buf
            /\ UNCHANGED wres
    /\ UNCHANGED <<state, mutex, rpc, wwoken, rwoken, rres, written, received>>

\* poll_write, the critical section.
poll_write_locked ==
    /\ wpc = "poll_write"
    /\ mutex = "free"
    /\ rwoken' = wake_reader_half
    /\ LET remaining == BUFFER_SIZE - Len(buffer) IN
       IF remaining = 0
       THEN /\ writer_waker' = Some
            /\ wpc' = "parked"
            /\ wres' = Result("write", "would_block", 0)
            /\ UNCHANGED <<buffer, written>>
       ELSE /\ buffer' = buffer \o SubSeq(wbuf, 1, bytes_to_write(wbuf))
            /\ written' = written \o SubSeq(wbuf, 1, bytes_to_write(wbuf))
            /\ wpc' = "idle"
            /\ wres' = Result("write", "ok", bytes_to_write(wbuf))
            /\ UNCHANGED writer_waker
    /\ wbuf' = <<>>
    /\ UNCHANGED <<closed, reader_waker, mutex, rpc, wwoken, rres, received>>

\* A poll_flush that returns Pending without registering the writer's waker.
poll_flush_no_register ==
    /\ wpc = "idle"
    /\ mutex = "free"
    /\ IF buffer = <<>>
       THEN /\ wres' = Result("flush", "ok", 0)
            /\ UNCHANGED <<writer_waker, wpc, rwoken>>
       ELSE /\ rwoken' = wake_reader_half
            /\ wpc' = "parked"
            /\ wres' = Result("flush", "would_block", 0)
            /\ UNCHANGED writer_waker
    /\ UNCHANGED <<buffer, closed, reader_waker, mutex, rpc, wbuf, wwoken, rres,
                   written, received>>

\* poll_flush.
poll_flush ==
    /\ wpc = "idle"
    /\ mutex = "free"
    /\ IF buffer = <<>>
       THEN /\ wres' = Result("flush", "ok", 0)
            /\ UNCHANGED <<writer_waker, wpc, rwoken>>
       ELSE /\ writer_waker' = Some
            /\ rwoken' = wake_reader_half
            /\ wpc' = "parked"
            /\ wres' = Result("flush", "would_block", 0)
    /\ UNCHANGED <<buffer, closed, reader_waker, mutex, rpc, wbuf, wwoken, rres,
                   written, received>>

\* PipeWriter::close, returning under the name op (close, or shutdown's close).
PipeWriter_close(op) ==
    /\ wpc = "idle"
    /\ mutex = "free"
    /\ closed' = TRUE
    /\ rwoken' = wake_reader_half
    /\ wres' = Result(op, "ok", 0)
    /\ UNCHANGED <<buffer, reader_waker, writer_waker, mutex, wpc, rpc, wbuf,
                   wwoken, rres, written, received>>

\* poll_shutdown: close(), mapped to Ready.
poll_shutdown == PipeWriter_close("shutdown")

\* Dropping the PipeWriter: the struct has no Drop impl, so only the Arc's count
\* falls.  A parked task is dropped together with its handle.
PipeWriter_drop ==
    /\ wpc \in {"idle", "parked"}
    /\ wpc' = "dropped"
    /\ UNCHANGED <<state, mutex, rpc, wbuf, wwoken, rwoken, wres, rres,
                   written, received>>

\* The executor polls the parked writer task again once its waker was invoked.
WriterResume ==
    /\ wpc = "parked"
    /\ wwoken
    /\ wpc' = "idle"
    /\ wwoken' = FALSE
    /\ UNCHANGED <<state, mutex, rpc, wbuf, rwoken, wres, rres, written, received>>

----------------------------------------------------------------------------
(* PipeReader *)

\* A poll_read that takes the writer's waker out of its slot when it wakes it.
poll_read_begin_take(len) ==
    /\ rpc = "idle"
    /\ mutex = "free"
    /\ IF nothing_to_read
       THEN IF end_of_stream
            THEN /\ rres' = Result("read", "ok", 0)
                 /\ UNCHANGED <<buffer, received, mutex, rpc, wwoken, writer_waker>>
            ELSE /\ mutex' = "reader"
                 /\ rpc' = "poll_read"
                 /\ UNCHANGED <<buffer, received, rres, wwoken, writer_waker>>
       ELSE /\ wwoken' = wake_writer_half
            /\ writer_waker' = None
            /\ received' = received \o SubSeq(buffer, 1, size_to_read(len))
            /\ buffer' = rest(size_to_read(len))
            /\ rres' = Result("read", "ok", size_to_read(len))
            /\ UNCHANGED <<mutex, rpc>>
    /\ UNCHANGED <<closed, reader_waker, wpc, wbuf, rwoken, wres, written>>

\* poll_read up to the end of the emptiness / liveness test.  The two ready
\* branches finish here; the pending branch keeps the lock.
poll_read_begin(len) ==
    /\ rpc = "idle"
    /\ mutex = "free"
    /\ IF nothing_to_read
       THEN IF end_of_stream
            THEN /\ rres' = Result("read", "ok", 0)
                 /\ UNCHANGED <<buffer, received, mutex, rpc, wwoken>>
            ELSE /\ mutex' = "reader"
                 /\ rpc' = "poll_read"
                 /\ UNCHANGED <<buffer, received, rres, wwoken>>
       ELSE /\ wwoken' = wake_writer_half
            /\ received' = received \o SubSeq(buffer, 1, size_to_read(len))
            /\ buffer' = rest(size_to_read(len))
            /\ rres' = Result("read", "ok", size_to_read(len))
            /\ UNCHANGED <<mutex, rpc>>
    /\ UNCHANGED <<closed, reader_waker, writer_waker, wpc, wbuf, rwoken, wres, written>>

\* poll_read, the pending branch: wake the writer, register, unlock.
poll_read_pending ==
    /\ rpc = "poll_read"
    /\ mutex = "reader"
    /\ wwoken' = wake_writer_half
    /\ reader_waker' = Some
    /\ mutex' = "free"
    /\ rpc' = "parked"
    /\ rres' = Result("read", "would_block", 0)
    /\ UNCHANGED <<buffer, closed, writer_waker, wpc, wbuf, rwoken, wres, written, received>>

\* A close that flips the flag instead of setting it.
PipeReader_close_toggle ==
    /\ rpc = "idle"
    /\ mutex = "free"
    /\ closed' = ~closed
    /\ wwoken' = wake_writer_half
    /\ rres' = Result("close", "ok", 0)
    /\ UNCHANGED <<buffer, reader_waker, writer_waker, mutex, wpc, rpc, wbuf,
                   rwoken, wres, written, received>>

\* PipeReader::close.
PipeReader_close ==
    /\ rpc = "idle"
    /\ mutex = "free"
    /\ closed' = TRUE
    /\ wwoken' = wake_writer_half
    /\ rres' = Result("close", "ok", 0)
    /\ UNCHANGED <<buffer, reader_waker, writer_waker, mutex, wpc, rpc, wbuf,
                   rwoken, wres, written, received>>

\* Dropping the PipeReader: no Drop impl, only the Arc's count falls.
PipeReader_drop ==
    /\ rpc \in {"idle", "parked"}
    /\ rpc' = "dropped"
    /\ UNCHANGED <<state, mutex, wpc, wbuf, wwoken, rwoken, wres, rres,
                   written, received>>

\* The executor polls the parked reader task again once its waker was invoked.
ReaderResume ==
    /\ rpc = "parked"
    /\ rwoken
    /\ rpc' = "idle"
    /\ rwoken' = FALSE
    /\ UNCHANGED <<state, mutex, wpc, wbuf, wwoken, wres, rres, written, received>>

----------------------------------------------------------------------------
(* Any use of the two handles, one task per handle. *)

Init ==
    /\ pipe
    /\ wtask = "free"
    /\ rtask = "free"
    /\ data = <<>>

Write ==
    /\ \E buf \in SeqsUpTo(MaxSlice) :
          /\ Len(written) + Len(buf) <= MaxWritten
          /\ poll_write_begin(buf)
    /\ UNCHANGED tasks

WriteLocked == poll_write_locked /\ UNCHANGED tasks

Flush == poll_flush /\ UNCHANGED tasks

WriterClose == PipeWriter_close("close") /\ UNCHANGED tasks

Shutdown == poll_shutdown /\ UNCHANGED tasks

WriterDrop == PipeWriter_drop /\ UNCHANGED tasks

WriterWoken == WriterResume /\ UNCHANGED tasks

Read == (\E len \in 0..MaxSlice : poll_read_begin(len)) /\ UNCHANGED tasks

ReadPending == poll_read_pending /\ UNCHANGED tasks

ReaderClose == PipeReader_close /\ UNCHANGED tasks

ReaderDrop == PipeReader_drop /\ UNCHANGED tasks

ReaderWoken == ReaderResume /\ UNCHANGED tasks

Next ==
    \/ Write
    \/ WriteLocked
    \/ Flush
    \/ WriterClose
    \/ Shutdown
    \/ WriterDrop
    \/ WriterWoken
    \/ Read
    \/ ReadPending
    \/ ReaderClose
    \/ ReaderDrop
    \/ ReaderWoken

Spec == Init /\ [][Next]_vars

----------------------------------------------------------------------------
(* The transfer of lib.rs's tests and of examples/main.rs: a writer task   *)
(* runs write_all(data) and then shutdown, a reader task runs read_to_end; *)
(* each task ends by dropping its handle.                                  *)

InitTransfer ==
    /\ pipe
    /\ wtask = "write_all"
    /\ rtask = "read_to_end"
    /\ data \in SeqsUpTo(MaxData)

\* write_all: poll_write of what is left of data, until nothing is left.
TWrite ==
    /\ wtask = "write_all"
    /\ Len(written) < Len(data)
    /\ poll_write_begin(SubSeq(data, Len(written) + 1, Len(data)))
    /\ wtask' = IF wres'.kind = "BrokenPipe" THEN "failed" ELSE wtask
    /\ UNCHANGED <<rtask, data>>

TWriteLocked == wtask = "write_all" /\ poll_write_locked /\ UNCHANGED tasks

TWriterWoken == wtask = "write_all" /\ WriterResume /\ UNCHANGED tasks

\* shutdown().await once write_all has returned.
TShutdown ==
    /\ wtask = "write_all"
    /\ Len(written) = Len(data)
    /\ poll_shutdown
    /\ wtask' = "done"
    /\ UNCHANGED <<rtask, data>>

\* The writer task ends: its handle is dropped.
TWriterDrop == wtask \in {"done", "failed"} /\ PipeWriter_drop /\ UNCHANGED tasks

\* read_to_end: poll_read into a non-empty spare buffer until it returns 0.
TRead ==
    /\ rtask = "read_to_end"
    /\ \E len \in 1..MaxSlice : poll_read_begin(len)
    /\ rtask' = IF rpc' = "idle" /\ rres'.kind = "ok" /\ rres'.n = 0 THEN "done" ELSE rtask
    /\ UNCHANGED <<wtask, data>>

TReadPending == rtask = "read_to_end" /\ poll_read_pending /\ UNCHANGED tasks

TReaderWoken == rtask = "read_to_end" /\ ReaderResume /\ UNCHANGED tasks

\* The reader task ends: its handle is dropped.
TReaderDrop == rtask = "done" /\ PipeReader_drop /\ UNCHANGED tasks

TWriterStep == TWrite \/ TWriteLocked \/ TWriterWoken \/ TShutdown \/ TWriterDrop

TReaderStep == TRead \/ TReadPending \/ TReaderWoken \/ TReaderDrop

NextTransfer ==
    \/ TWrite
    \/ TWriteLocked
    \/ TWriterWoken
    \/ TShutdown
    \/ TWriterDrop
    \/ TRead
    \/ TReadPending
    \/ TReaderWoken
    \/ TReaderDrop

\* The executor runs every task that is runnable or has been woken.
SpecTransfer ==
    /\ InitTransfer
    /\ [][NextTransfer]_vars
    /\ WF_vars(TWriterStep)
    /\ WF_vars(TReaderStep)

----------------------------------------------------------------------------
(* Claims *)

WouldBlockWrite == Result("write", "would_block", 0)

\* C1: FIFO without loss or duplication: the bytes poll_write accepted are the
\* bytes poll_read returned followed by the bytes still buffered, so what the
\* reader has seen is a prefix of what was written.
C1_Fifo ==
    /\ written = received \o buffer
    /\ Len(received) <= Len(written)
    /\ received = SubSeq(written, 1, Len(received))

C1_Witness ==
    /\ Len(written) > BUFFER_SIZE
    /\ received # <<>>
    /\ buffer # <<>>
    /\ \E i, k \in 1..Len(written) : written[i] # written[k]

\* C2: under fair scheduling the transfer ends: the reader gets end-of-stream
\* having received exactly the bytes of data, and both tasks finish.
C2_TransferTerminates ==
    /\ [](rtask = "done" => received = data)
    /\ <>(rtask = "done" /\ wtask = "done" /\ received = data)

C2_Witness ==
    /\ rtask = "done"
    /\ Len(data) > BUFFER_SIZE
    /\ received = data
    /\ rres = Result("read", "ok", 0)


\* C3: once closed is set, a poll_write that begins returns BrokenPipe at once.
C3_WriteAfterCloseFails ==
    [][(closed /\ Write) => (wpc' = "idle" /\ wres' = Result("write", "BrokenPipe", 0))]_vars

\* C4: once the PipeReader is dropped a poll_write that begins returns
\* BrokenPipe and leaves buffer, closed and both wakers as they were.
C4_BrokenPipeOnReaderDrop ==
    [][(rpc = "dropped" /\ Write) =>
          /\ wres' = Result("write", "BrokenPipe", 0)
          /\ wpc' = "idle"
          /\ UNCHANGED <<buffer, closed, reader_waker, writer_waker>>]_vars

C4_Witness ==
    /\ rpc = "dropped"
    /\ wpc = "idle"
    /\ wres = Result("write", "BrokenPipe", 0)
    /\ buffer # <<>>

\* C5: a writer parked by poll_write whose PipeReader has been dropped has had
\* its waker invoked (a wake is pending for it), so it does not stay parked.
C5_ParkedWriterWokenOnReaderDrop ==
    (wpc = "parked" /\ wres = WouldBlockWrite /\ rpc = "dropped") => wwoken

\* C6: a reader parked by poll_read whose PipeWriter has been dropped finds the
\* pipe closed and has had its waker invoked.
C6_ParkedReaderWokenOnWriterDrop ==
    (rpc = "parked" /\ wpc = "dropped") => (closed /\ rwoken)

\* C7: with the buffer empty and the writer closed or dropped, poll_read returns
\* Ok(0) at once: it does not park and registers no waker.
C7_EofOnClose ==
    [][((closed \/ wpc = "dropped") /\ buffer = <<>> /\ Read) =>
          /\ rres' = Result("read", "ok", 0)
          /\ rpc' = "idle"
          /\ mutex' = "free"
          /\ UNCHANGED <<reader_waker, buffer, received>>]_vars

C7_Witness ==
    /\ wpc = "dropped"
    /\ ~closed
    /\ buffer = <<>>
    /\ rpc = "idle"
    /\ rres = Result("read", "ok", 0)
    /\ reader_waker = None
    /\ written # <<>>
    /\ received = written

\* C8: close and drop of the writer leave the buffered bytes alone, and with the
\* writer closed or dropped every poll_read into a non-empty destination returns
\* a positive count of bytes from the front of the buffer while it is non-empty,
\* and 0 only once it is empty.
C8_BufferedDataSurvivesClose ==
    /\ [][(WriterClose \/ Shutdown \/ WriterDrop) => UNCHANGED <<buffer, received>>]_vars
    /\ [][\A len \in 1..MaxSlice :
            ((closed \/ wpc = "dropped") /\ poll_read_begin(len)) =>
               IF buffer # <<>>
               THEN /\ rres'.kind = "ok"
                    /\ rres'.n = Min(Len(buffer), len)
                    /\ rres'.n > 0
                    /\ received' = received \o SubSeq(buffer, 1, rres'.n)
                    /\ buffer' = SubSeq(buffer, rres'.n + 1, Len(buffer))
               ELSE rres' = Result("read", "ok", 0)]_vars

C8_Witness ==
    /\ wpc = "dropped"
    /\ buffer # <<>>
    /\ rres.op = "read"
    /\ rres.kind = "ok"
    /\ rres.n > 0
    /\ received # <<>>

\* C9: the buffer never holds more than BUFFER_SIZE bytes.
C9_BoundedBuffer == Len(buffer) >= 0 /\ Len(buffer) <= BUFFER_SIZE

C9_Witness ==
    /\ Len(buffer) = BUFFER_SIZE
    /\ Len(written) > BUFFER_SIZE
    /\ wres = WouldBlockWrite

\* C10: backpressure.  On an open pipe a poll_write that finds the buffer full
\* returns Pending, registers writer_waker and leaves the buffer alone; the
\* writer is never more than BUFFER_SIZE bytes ahead of the reader; a poll_read
\* that frees space wakes the parked writer; the space stays free until the
\* writer's next operation returns; and the woken writer's next poll_write of a
\* non-empty slice, the reader still being there, accepts at least one byte.
C10_Backpressure ==
    /\ [][(~closed /\ rpc # "dropped" /\ Len(buffer) = BUFFER_SIZE /\ WriteLocked) =>
             /\ wres' = WouldBlockWrite
             /\ wpc' = "parked"
             /\ writer_waker' = Some
             /\ UNCHANGED <<buffer, written>>]_vars
    /\ [](Len(written) <= Len(received) + BUFFER_SIZE)
    /\ [][(wpc = "parked" /\ wres = WouldBlockWrite /\ Read /\ Len(buffer') < Len(buffer)) =>
             wwoken']_vars
    /\ [][(wres = WouldBlockWrite /\ Len(buffer) < BUFFER_SIZE /\ wbuf # <<>> /\ WriteLocked) =>
             /\ wres'.kind = "ok"
             /\ wres'.n >= 1
             /\ Len(written') = Len(written) + wres'.n]_vars
    /\ [][(wres = WouldBlockWrite /\ Len(buffer) < BUFFER_SIZE) =>
             (Len(buffer') < BUFFER_SIZE \/ wres' # wres)]_vars
    /\ [][(wres = WouldBlockWrite /\ wpc = "idle" /\ rpc # "dropped" /\ Write) =>
             wpc' = "poll_write"]_vars

C10_Witness ==
    /\ writer_waker = Some
    /\ wres.op = "write"
    /\ wres.kind = "ok"
    /\ wres.n >= 1
    /\ Len(written) > BUFFER_SIZE
    /\ received # <<>>

\* C11: once closed is set no operation appends to the buffer: the bytes
\* accepted so far stay as they are and the buffer can only shrink.
C11_NoAppendAfterClose ==
    [][closed => (written' = written /\ Len(buffer') <= Len(buffer))]_vars

\* C12: a poll_flush issued after the pipe was closed or the PipeReader was
\* dropped returns BrokenPipe; it does not park the writer.
C12_FlushAfterCloseFails ==
    [][((closed \/ rpc = "dropped") /\ Flush) =>
          (wres' = Result("flush", "BrokenPipe", 0) /\ wpc' = "idle")]_vars

----------------------------------------------------------------------------
(* The exchange of lib.rs's test drop_read_exact: a writer task runs       *)
(* write_all(data) and ends, a reader task runs read_exact of Len(data)    *)
(* bytes and is then dropped.                                              *)

InitExact ==
    /\ pipe
    /\ wtask = "write_all"
    /\ rtask = "read_exact"
    /\ data \in SeqsUpTo(MaxData)

\* The writer task ends once write_all has returned: its handle is dropped.
EWriterEnd ==
    /\ wtask = "failed" \/ (wtask = "write_all" /\ Len(written) = Len(data))
    /\ PipeWriter_drop
    /\ wtask' = IF wtask = "failed" THEN "failed" ELSE "done"
    /\ UNCHANGED <<rtask, data>>

\* read_exact: poll_read into what is left of the destination; Ok(0) before the
\* destination is full is the UnexpectedEof error.
ERead ==
    /\ rtask = "read_exact"
    /\ Len(received) < Len(data)
    /\ poll_read_begin(Len(data) - Len(received))
    /\ rtask' = IF rpc' = "idle" /\ rres'.kind = "ok" /\ rres'.n = 0 THEN "failed" ELSE rtask
    /\ UNCHANGED <<wtask, data>>

EReadPending == rtask = "read_exact" /\ poll_read_pending /\ UNCHANGED tasks

EReaderWoken == rtask = "read_exact" /\ ReaderResume /\ UNCHANGED tasks

\* drop(reader) once read_exact has returned.
EReaderDrop ==
    /\ rtask = "failed" \/ (rtask = "read_exact" /\ Len(received) = Len(data))
    /\ PipeReader_drop
    /\ rtask' = IF rtask = "failed" THEN "failed" ELSE "done"
    /\ UNCHANGED <<wtask, data>>

EWriterStep == TWrite \/ TWriteLocked \/ TWriterWoken \/ EWriterEnd

EReaderStep == ERead \/ EReadPending \/ EReaderWoken \/ EReaderDrop

NextExact ==
    \/ TWrite
    \/ TWriteLocked
    \/ TWriterWoken
    \/ EWriterEnd
    \/ ERead
    \/ EReadPending
    \/ EReaderWoken
    \/ EReaderDrop

\* The executor runs every task that is runnable or has been woken.
SpecExact ==
    /\ InitExact
    /\ [][NextExact]_vars
    /\ WF_vars(EWriterStep)
    /\ WF_vars(EReaderStep)

\* C13: with Len(data) <= BUFFER_SIZE, the writer's write_all never fails with
\* BrokenPipe and always completes, although the reader is dropped as soon as
\* it has read Len(data) bytes; the reader ends only after all of data was
\* accepted.
C13_WriterCompletes ==
    /\ [](Len(data) <= BUFFER_SIZE => wtask # "failed")
    /\ [](Len(data) <= BUFFER_SIZE /\ rtask = "done" => written = data)
    /\ (Len(data) <= BUFFER_SIZE => <>(wtask = "done" /\ written = data))

C13_Witness ==
    /\ Len(data) = BUFFER_SIZE
    /\ wtask = "done"
    /\ rtask = "done"
    /\ rpc = "dropped"
    /\ wpc = "dropped"
    /\ received = data

----------------------------------------------------------------------------
(* A writer task that runs write_all(data), then flush, then shutdown,     *)
(* against a reader task that runs read_to_end.                            *)

InitFlush ==
    /\ pipe
    /\ wtask = "write_all"
    /\ rtask = "read_to_end"
    /\ data \in SeqsUpTo(MaxData)

\* flush().await once write_all has returned: poll_flush until it is Ready.
FFlush ==
    /\ wtask = "flush" \/ (wtask = "write_all" /\ Len(written) = Len(data))
    /\ poll_flush
    /\ wtask' = IF wres'.kind = "ok" THEN "flushed" ELSE "flush"
    /\ UNCHANGED <<rtask, data>>

FWriterWoken == wtask = "flush" /\ WriterResume /\ UNCHANGED tasks

\* shutdown().await once flush has returned.
FShutdown ==
    /\ wtask = "flushed"
    /\ poll_shutdown
    /\ wtask' = "done"
    /\ UNCHANGED <<rtask, data>>

FWriterStep ==
    TWrite \/ TWriteLocked \/ TWriterWoken \/ FFlush \/ FWriterWoken \/ FShutdown \/ TWriterDrop

NextFlush ==
    \/ TWrite
    \/ TWriteLocked
    \/ TWriterWoken
    \/ FFlush
    \/ FWriterWoken
    \/ FShutdown
    \/ TWriterDrop
    \/ TRead
    \/ TReadPending
    \/ TReaderWoken
    \/ TReaderDrop

\* The executor runs every task that is runnable or has been woken.
SpecFlush ==
    /\ InitFlush
    /\ [][NextFlush]_vars
    /\ WF_vars(FWriterStep)
    /\ WF_vars(TReaderStep)

WouldBlockFlush == Result("flush", "would_block", 0)

\* C14: poll_flush is Ready exactly when the buffer is empty at the call;
\* otherwise it registers writer_waker, wakes the reader, returns Pending and
\* leaves the buffer alone.  With both handles alive and the reader reading,
\* every poll_read of a non-empty buffer wakes the writer parked in flush, and
\* the flush does become Ready, with the buffer drained.
C14_FlushWaitsForDrain ==
    /\ [][poll_flush =>
            IF buffer = <<>>
            THEN /\ wres' = Result("flush", "ok", 0)
                 /\ wpc' = "idle"
                 /\ UNCHANGED <<buffer, writer_waker, rwoken>>
            ELSE /\ wres' = WouldBlockFlush
                 /\ wpc' = "parked"
                 /\ writer_waker' = Some
                 /\ (reader_waker = Some => rwoken')
                 /\ buffer' = buffer]_vars
    /\ [][(wpc = "parked" /\ wres = WouldBlockFlush /\ buffer # <<>> /\ TRead) => wwoken']_vars
    /\ [][(wtask # "flushed" /\ wtask' = "flushed") => (buffer = <<>> /\ received = data)]_vars
    /\ <>(wtask = "done" /\ rtask = "done" /\ received = data)

C14_Witness ==
    /\ wtask = "flushed"
    /\ wres = Result("flush", "ok", 0)
    /\ writer_waker = Some
    /\ Len(data) > BUFFER_SIZE
    /\ received = data
    /\ buffer = <<>>

\* C15: poll_write is let past its liveness test only while the reader exists
\* and returns Pending only on a full buffer of a pipe that is not closed;
\* poll_read goes for Pending only on an empty buffer of a pipe that is not
\* closed and whose writer exists.
C15_SuspendOnlyWhenOpen ==
    /\ [][(Write /\ wpc' = "poll_write") => rpc # "dropped"]_vars
    /\ [][(WriteLocked /\ wpc' = "parked") => (Len(buffer) = BUFFER_SIZE /\ ~closed)]_vars
    /\ [][(Read /\ rpc' = "poll_read") =>
             (buffer = <<>> /\ ~closed /\ wpc # "dropped")]_vars

\* C16: closed starts false and never goes back to false, and a close() on a
\* pipe that is already closed returns Ok and leaves closed and buffer alone.
C16_ClosedMonotonic ==
    /\ ~closed
    /\ [][closed => closed']_vars
    /\ [][(closed /\ (WriterClose \/ Shutdown)) =>
             (closed' /\ buffer' = buffer /\ wres'.kind = "ok")]_vars
    /\ [][(closed /\ ReaderClose) =>
             (closed' /\ buffer' = buffer /\ rres' = Result("close", "ok", 0))]_vars

C16_Witness ==
    /\ closed
    /\ wres = Result("close", "ok", 0)
    /\ rres = Result("close", "ok", 0)
    /\ buffer # <<>>

\* C17 as stated: a waker slot is present only while its task is parked and
\* has not been woken yet.
C17_WakerSlotsCleared ==
    /\ writer_waker = Some => (wpc = "parked" /\ ~wwoken)
    /\ reader_waker = Some => (rpc = "parked" /\ ~rwoken)

\* C17 as the code has it: a waker slot is never cleared.  It is absent until
\* its side first returns Pending, a parked task always has its slot present,
\* and a slot once present stays present through wakes and ready returns.
C17_WakerSlotsKept ==
    /\ [](wpc = "parked" => writer_waker = Some)
    /\ [](rpc = "parked" => reader_waker = Some)
    /\ [][writer_waker = Some => writer_waker' = Some]_vars
    /\ [][reader_waker = Some => reader_waker' = Some]_vars
    /\ [][(writer_waker = None /\ writer_waker' = Some) => wres'.kind = "would_block"]_vars
    /\ [][(reader_waker = None /\ reader_waker' = Some) => rres'.kind = "would_block"]_vars

C17_Witness ==
    /\ writer_waker = Some
    /\ reader_waker = Some
    /\ wpc = "idle"
    /\ rpc = "idle"
    /\ wres.op = "write"
    /\ wres.kind = "ok"
    /\ rres.op = "read"
    /\ rres.kind = "ok"
    /\ rres.n > 0

\* C18: a poll_write that finds room appends exactly the first
\* min(remaining, L) bytes of its slice after the bytes already buffered,
\* returns that count and wakes the reader.
C18_PartialWriteAmount ==
    [][(WriteLocked /\ Len(buffer) < BUFFER_SIZE) =>
          LET L == Len(wbuf)
              remaining == BUFFER_SIZE - Len(buffer)
              n == IF remaining <= L THEN remaining ELSE L
          IN /\ wres' = Result("write", "ok", n)
             /\ wpc' = "idle"
             /\ Len(buffer') = Len(buffer) + n
             /\ SubSeq(buffer', 1, Len(buffer)) = buffer
             /\ \A i \in 1..n : buffer'[Len(buffer) + i] = wbuf[i]
             /\ written' = written \o SubSeq(wbuf, 1, n)
             /\ (reader_waker = Some => rwoken')]_vars

C18_Witness ==
    /\ wres = Result("write", "ok", 1)
    /\ wpc = "idle"
    /\ Len(buffer) = BUFFER_SIZE
    /\ Len(written) = BUFFER_SIZE
    /\ received = <<>>
    /\ rwoken

\* C19: a poll_read that finds bytes removes exactly the first min(len, D) of
\* them, returns them in order, keeps the others in order and wakes the writer;
\* a poll_read into a non-empty destination returns 0 only on an empty buffer
\* of a pipe that is closed or whose writer is gone.
C19_ReadAmount ==
    /\ [][\A D \in 0..MaxSlice :
            (buffer # <<>> /\ poll_read_begin(D)) =>
               LET n == IF Len(buffer) <= D THEN Len(buffer) ELSE D
               IN /\ rres' = Result("read", "ok", n)
                  /\ rpc' = "idle"
                  /\ received' = received \o SubSeq(buffer, 1, n)
                  /\ buffer' = SubSeq(buffer, n + 1, Len(buffer))
                  /\ (writer_waker = Some => wwoken')]_vars
    /\ [][\A D \in 1..MaxSlice :
            (poll_read_begin(D) /\ rpc' = "idle" /\ rres' = Result("read", "ok", 0)) =>
               (buffer = <<>> /\ (closed \/ wpc = "dropped"))]_vars

C19_Witness ==
    /\ rres = Result("read", "ok", 1)
    /\ Len(received) = 1
    /\ Len(buffer) = BUFFER_SIZE - 1
    /\ Len(written) = BUFFER_SIZE
    /\ wres = WouldBlockWrite
    /\ wwoken

\* C20: while both handles are alive and the pipe is not closed, a reader
\* parked with no wake pending means an empty buffer, a writer parked in
\* poll_write with no wake pending means a full buffer, a writer parked in
\* poll_flush with no wake pending means a non-empty buffer; so the two are
\* never both parked with no wake pending.
C20_NoLostWakeup ==
    (wpc # "dropped" /\ rpc # "dropped" /\ ~closed) =>
        /\ (rpc = "parked" /\ ~rwoken) => buffer = <<>>
        /\ (wpc = "parked" /\ wres = WouldBlockWrite /\ ~wwoken) => Len(buffer) = BUFFER_SIZE
        /\ (wpc = "parked" /\ wres = WouldBlockFlush /\ ~wwoken) => buffer # <<>>
        /\ ~(rpc = "parked" /\ ~rwoken /\ wpc = "parked" /\ ~wwoken)

C20_Witness ==
    /\ ~closed
    /\ rpc = "parked"
    /\ ~rwoken
    /\ wpc = "idle"
    /\ writer_waker = Some
    /\ buffer = <<>>
    /\ Len(written) > BUFFER_SIZE
    /\ received = written

====
